---------------------------- MODULE Spec2Model ----------------------------
(***************************************************************************)
(* Battery simulation (jnh277/battery_simulation): the validated quantity  *)
(* types of src/src/types.rs, the battery state-transition engine of       *)
(* src/src/battery.rs and the fold of src/src/simulation.rs.               *)
(*                                                                         *)
(* Numbers.  The program computes in f64.  A quantity is modelled by an    *)
(* integer count of grid units, Scale units making 1.0 (1 kWh, 1 kW, 1 h,  *)
(* efficiency 1.0).  Addition, subtraction, negation, min, max and the     *)
(* comparisons are exact on the grid; a product, a quotient and a square   *)
(* root are rounded to the nearest grid value, as f64 rounds each of them  *)
(* to the nearest representable value.  MAX_VALUE and MIN_VALUE are the    *)
(* program's constants expressed on this grid, scaled so that every        *)
(* intermediate fits TLC's 32-bit integers and so that the overflow the    *)
(* constructors reject is within reach of the inputs.                      *)
(***************************************************************************)
EXTENDS Integers, Sequences, FiniteSets, TLC

\* Grid units per 1.0.
Scale == 10

\* types.rs:4  const MIN_VALUE: f64 = 1e-10  -- the smallest positive grid value.
MIN_VALUE == 1

\* types.rs:5  const MAX_VALUE: f64 = 1e6  -- 20.0 on the grid.
MAX_VALUE == 200

\* Longest sequence of direct Battery calls explored in one run.
MaxOps == 2

\* Longest telemetry sequence handed to simulate_load_following.
MaxTelemetry == 3

--------------------------------------------------------------------------
(* f64 arithmetic on the grid *)

\* n / d rounded to the nearest integer (d > 0), halves upwards.
RoundDiv(n, d) == (2 * n + d) \div (2 * d)

\* f64 `a * b` of two grid values.
MulF(a, b) == RoundDiv(a * b, Scale)

\* f64 `a / b` of two grid values, b > 0.
DivF(a, b) == RoundDiv(a * Scale, b)

\* f64::sqrt of a grid value in 0..Scale: the nearest grid value to the root.
SqrtF(x) ==
    CHOOSE r \in 0..Scale :
        /\ (2 * r - 1) * (2 * r - 1) <= 4 * x * Scale
        /\ 4 * x * Scale < (2 * r + 1) * (2 * r + 1)

MinF(a, b) == IF a <= b THEN a ELSE b

MaxF(a, b) == IF a >= b THEN a ELSE b

AbsF(a) == IF a < 0 THEN -a ELSE a

--------------------------------------------------------------------------
(* Quantity constructors (types.rs).  A constructor's Result is modelled   *)
(* by the predicate that it returns Ok; the value it then wraps is its     *)
(* argument.                                                               *)

\* Energy::from_kwh: Err iff infinite, NaN or above MAX_VALUE.  Grid values
\* are finite, so the first two tests never fire.
EnergyFromKwhOk(energy_kwh) == ~(energy_kwh > MAX_VALUE)

\* Power::from_kw: the same test.
PowerFromKwOk(power_kw) == ~(power_kw > MAX_VALUE)

\* Duration::from_hour: Err iff outside MIN_VALUE..=MAX_VALUE.
DurationFromHourOk(duration_hour) ==
    ~(~(MIN_VALUE <= duration_hour /\ duration_hour <= MAX_VALUE))

\* Efficiency::from_fraction with Duration's inclusive range test.
EfficiencyFromFractionOk_Inclusive(fraction) ==
    ~(~(MIN_VALUE <= fraction /\ fraction <= Scale))

\* Efficiency::from_fraction: Err iff <= MIN_VALUE or > 1.0.
EfficiencyFromFractionOk(fraction) ==
    ~(fraction <= MIN_VALUE \/ fraction > Scale)

\* Efficiency::sqrt: unvalidated.
EfficiencySqrt(e) == SqrtF(e)

(* An operator of types.rs that ends in `.expect(...)` either yields a     *)
(* value or panics.                                                        *)
Val(x) == [panic |-> FALSE, v |-> x]

PANIC == [panic |-> TRUE, v |-> 0]

\* impl Mul<Duration> for Power: Energy::from_kwh(p * d).expect(..)
MulPowerDuration(p, d) ==
    LET x == MulF(p, d) IN IF EnergyFromKwhOk(x) THEN Val(x) ELSE PANIC

\* impl Div<Duration> for Energy: Power::from_kw(e / d).expect(..)
DivEnergyDuration(e, d) ==
    LET x == DivF(e, d) IN IF PowerFromKwOk(x) THEN Val(x) ELSE PANIC

\* impl Div<Efficiency> for Power: Power::from_kw(p / eff).expect(..)
DivPowerEfficiency(p, eff) ==
    LET x == DivF(p, eff) IN IF PowerFromKwOk(x) THEN Val(x) ELSE PANIC

\* impl Mul<Efficiency> for Power: Power::from_kw(p * eff).expect(..)
MulPowerEfficiency(p, eff) ==
    LET x == MulF(p, eff) IN IF PowerFromKwOk(x) THEN Val(x) ELSE PANIC

\* impl Div<Efficiency> for Energy: Energy::from_kwh(e / eff).expect(..)
DivEnergyEfficiency(e, eff) ==
    LET x == DivF(e, eff) IN IF EnergyFromKwhOk(x) THEN Val(x) ELSE PANIC

\* impl Mul<Efficiency> for Energy: Energy::from_kwh(e * eff).expect(..)
MulEnergyEfficiency(e, eff) ==
    LET x == MulF(e, eff) IN IF EnergyFromKwhOk(x) THEN Val(x) ELSE PANIC

\* TelemetryPoint::excess_pv: solar_power - load_power (Sub for Power, unvalidated).
ExcessPv(tp) == tp.solar_power - tp.load_power

--------------------------------------------------------------------------
(* Battery (battery.rs).  A Result<BatteryState, _> that may also panic is *)
(* a record tagged "Ok" (with the state), "Err" (with the error) or        *)
(* "Panic".                                                                *)

\* BatteryState::new
BatteryStateNew(state_of_charge, power) ==
    [state_of_charge |-> state_of_charge, power |-> power]

Ok(s) == [tag |-> "Ok", state |-> s]

Err(e) == [tag |-> "Err", err |-> e]

Panicked == [tag |-> "Panic"]

\* Battery::new that rejects only a negative capacity.
BatteryNew_AcceptsZeroCapacity(capacity, max_power, round_trip_efficiency) ==
    IF capacity < 0 THEN "NonPositiveCapacity"
    ELSE IF max_power <= 0 THEN "NonPositiveMaxPower"
    ELSE "Ok"

\* Battery::new: the error it returns, or "Ok".
BatteryNew(capacity, max_power, round_trip_efficiency) ==
    IF capacity <= 0 THEN "NonPositiveCapacity"
    ELSE IF max_power <= 0 THEN "NonPositiveMaxPower"
    ELSE "Ok"

\* Battery::init_state without its test for a negative state of charge.
InitState_NoNegativeCheck(b, state_of_charge, power) ==
    IF state_of_charge > b.capacity
        THEN [tag |-> "Err", err |-> <<"StateOfChargeGreaterThanCapacity">>]
    ELSE IF AbsF(power) > b.max_power
        THEN [tag |-> "Err", err |-> <<"PowerGreaterThanMax">>]
    ELSE [tag |-> "Ok", state |-> BatteryStateNew(state_of_charge, power)]

\* Battery::init_state that compares the signed power with max_power.
InitState_SignedPower(b, state_of_charge, power) ==
    IF state_of_charge < 0
        THEN [tag |-> "Err", err |-> <<"NegativeStateOfCharge">>]
    ELSE IF state_of_charge > b.capacity
        THEN [tag |-> "Err", err |-> <<"StateOfChargeGreaterThanCapacity">>]
    ELSE IF power > b.max_power
        THEN [tag |-> "Err", err |-> <<"PowerGreaterThanMax">>]
    ELSE [tag |-> "Ok", state |-> BatteryStateNew(state_of_charge, power)]

\* Battery::init_state
InitState(b, state_of_charge, power) ==
    IF state_of_charge < 0 THEN Err(<<"NegativeStateOfCharge">>)
    ELSE IF state_of_charge > b.capacity
        THEN Err(<<"StateOfChargeGreaterThanCapacity">>)
    ELSE IF AbsF(power) > b.max_power THEN Err(<<"PowerGreaterThanMax">>)
    ELSE Ok(BatteryStateNew(state_of_charge, power))

\* Battery::efficiency that returns the round-trip efficiency itself.
Efficiency_RoundTrip(b) == b.round_trip_efficiency

\* Battery::efficiency
Efficiency(b) == EfficiencySqrt(b.round_trip_efficiency)

\* Battery::max_achievable_charge_power that ignores the remaining capacity.
MaxAchievableChargePower_MaxPowerOnly(b, s, duration) ==
    LET capacity_available == b.capacity - s.state_of_charge
        q == DivEnergyDuration(capacity_available, duration)
        power_to_fill == IF q.panic THEN PANIC
                         ELSE DivPowerEfficiency(q.v, Efficiency(b))
    IN IF power_to_fill.panic THEN PANIC
       ELSE Val(b.max_power)

\* Battery::max_achievable_charge_power
MaxAchievableChargePower(b, s, duration) ==
    LET capacity_available == b.capacity - s.state_of_charge
        q == DivEnergyDuration(capacity_available, duration)
        power_to_fill == IF q.panic THEN PANIC
                         ELSE DivPowerEfficiency(q.v, Efficiency(b))
    IN IF power_to_fill.panic THEN PANIC
       ELSE Val(MinF(b.max_power, power_to_fill.v))

\* Battery::max_achievable_discharge_power
MaxAchievableDischargePower(b, s, duration) ==
    LET q == DivEnergyDuration(s.state_of_charge, duration)
        power_to_empty == IF q.panic THEN PANIC
                          ELSE MulPowerEfficiency(q.v, Efficiency(b))
    IN IF power_to_empty.panic THEN PANIC
       ELSE Val(MinF(b.max_power, power_to_empty.v))

\* map_err(BatteryError::ErrorCharging) / map_err(BatteryError::ErrorDischarging)
MapErr(r, ctx) == IF r.tag = "Err" THEN Err(<<ctx>> \o r.err) ELSE r

\* Battery::charge that clamps the request to max_power alone, ignoring the
\* power that would fill the remaining capacity.
Charge_ClampsToMaxPowerOnly(b, s, power, duration) ==
    LET m == MaxAchievableChargePower(b, s, duration)
        actual_power == MinF(power, b.max_power)
        e1 == MulPowerDuration(actual_power, duration)
        e2 == IF e1.panic THEN PANIC ELSE MulEnergyEfficiency(e1.v, Efficiency(b))
        state_of_charge == MinF(s.state_of_charge + e2.v, b.capacity)
    IN IF m.panic \/ e2.panic THEN Panicked
       ELSE MapErr(InitState(b, state_of_charge, actual_power), "ErrorCharging")

\* Battery::charge with a ramp limit: the power may rise by at most max_power
\* above the power of the input state.
Charge_RampLimited(b, s, power, duration) ==
    LET m == MaxAchievableChargePower(b, s, duration)
        actual_power == MinF(MinF(power, m.v), s.power + b.max_power)
        e1 == MulPowerDuration(actual_power, duration)
        e2 == IF e1.panic THEN PANIC ELSE MulEnergyEfficiency(e1.v, Efficiency(b))
        state_of_charge == MinF(s.state_of_charge + e2.v, b.capacity)
    IN IF m.panic \/ e2.panic THEN Panicked
       ELSE MapErr(InitState(b, state_of_charge, actual_power), "ErrorCharging")

\* Battery::charge
Charge(b, s, power, duration) ==
    LET m == MaxAchievableChargePower(b, s, duration)
        actual_power == MinF(power, m.v)
        e1 == MulPowerDuration(actual_power, duration)
        e2 == IF e1.panic THEN PANIC ELSE MulEnergyEfficiency(e1.v, Efficiency(b))
        state_of_charge == MinF(s.state_of_charge + e2.v, b.capacity)
    IN IF m.panic \/ e2.panic THEN Panicked
       ELSE MapErr(InitState(b, state_of_charge, actual_power), "ErrorCharging")

\* Battery::discharge that wraps a validation failure as ErrorCharging.
Discharge_ReportsCharging(b, s, power, duration) ==
    LET m == MaxAchievableDischargePower(b, s, duration)
        actual_power == MinF(power, m.v)
        e1 == MulPowerDuration(actual_power, duration)
        e2 == IF e1.panic THEN PANIC ELSE DivEnergyEfficiency(e1.v, Efficiency(b))
        state_of_charge == MaxF(s.state_of_charge - e2.v, 0)
    IN IF m.panic \/ e2.panic THEN Panicked
       ELSE MapErr(InitState(b, state_of_charge, actual_power), "ErrorCharging")

\* Battery::discharge that adds the discharged energy to the state of charge.
Discharge_AddsEnergy(b, s, power, duration) ==
    LET m == MaxAchievableDischargePower(b, s, duration)
        actual_power == MinF(power, m.v)
        e1 == MulPowerDuration(actual_power, duration)
        e2 == IF e1.panic THEN PANIC ELSE DivEnergyEfficiency(e1.v, Efficiency(b))
        state_of_charge == MaxF(s.state_of_charge + e2.v, 0)
    IN IF m.panic \/ e2.panic THEN Panicked
       ELSE MapErr(InitState(b, state_of_charge, actual_power), "ErrorDischarging")

\* Battery::discharge that limits the request to max_power alone and does not
\* floor the new state of charge at zero.
Discharge_Unclamped(b, s, power, duration) ==
    LET m == MaxAchievableDischargePower(b, s, duration)
        actual_power == MinF(power, b.max_power)
        e1 == MulPowerDuration(actual_power, duration)
        e2 == IF e1.panic THEN PANIC ELSE DivEnergyEfficiency(e1.v, Efficiency(b))
        state_of_charge == s.state_of_charge - e2.v
    IN IF m.panic \/ e2.panic THEN Panicked
       ELSE MapErr(InitState(b, state_of_charge, actual_power), "ErrorDischarging")

\* Battery::discharge
Discharge(b, s, power, duration) ==
    LET m == MaxAchievableDischargePower(b, s, duration)
        actual_power == MinF(power, m.v)
        e1 == MulPowerDuration(actual_power, duration)
        e2 == IF e1.panic THEN PANIC ELSE DivEnergyEfficiency(e1.v, Efficiency(b))
        state_of_charge == MaxF(s.state_of_charge - e2.v, 0)
    IN IF m.panic \/ e2.panic THEN Panicked
       ELSE MapErr(InitState(b, state_of_charge, actual_power), "ErrorDischarging")

\* Battery::step that hands a negative power to discharge without negating it.
Step_NoNegation(b, s, power, duration) ==
    IF power < 0 THEN Discharge(b, s, power, duration)
    ELSE IF power > 0 THEN Charge(b, s, power, duration)
    ELSE Ok([state_of_charge |-> s.state_of_charge, power |-> 0])

\* Battery::step whose zero branch copies the input's power.
Step_ZeroKeepsPower(b, s, power, duration) ==
    IF power < 0 THEN Discharge(b, s, -power, duration)
    ELSE IF power > 0 THEN Charge(b, s, power, duration)
    ELSE Ok([state_of_charge |-> s.state_of_charge, power |-> s.power])

\* Battery::step
Step(b, s, power, duration) ==
    IF power < 0 THEN Discharge(b, s, -power, duration)
    ELSE IF power > 0 THEN Charge(b, s, power, duration)
    ELSE Ok([state_of_charge |-> s.state_of_charge, power |-> 0])

\* LoadFollowing::decide
Decide(generation, consumption) == generation - consumption

\* Battery::load_follow_step that commands load_power - solar_power.
LoadFollowStep_LoadMinusSolar(b, s, tp) ==
    Step(b, s, tp.load_power - tp.solar_power, tp.duration)

\* Battery::load_follow_step
LoadFollowStep(b, s, tp) == Step(b, s, ExcessPv(tp), tp.duration)

--------------------------------------------------------------------------
(* Inputs.  Everything below is a value the validating constructors       *)
(* accept.                                                                *)

\* Energies offered to Battery::new as capacity.
Capacities == {2 * Scale, 4 * Scale}

\* Powers offered to Battery::new as max_power.
MaxPowers == {Scale, 3 * Scale}

\* Round-trip efficiencies offered to Battery::new (0.8, 1.0).
Efficiencies == {(8 * Scale) \div 10, Scale}

\* Every Battery that Battery::new returns for these arguments.
Batteries ==
    { b \in [capacity : Capacities, max_power : MaxPowers,
             round_trip_efficiency : Efficiencies] :
        /\ EnergyFromKwhOk(b.capacity)
        /\ PowerFromKwOk(b.max_power)
        /\ EfficiencyFromFractionOk(b.round_trip_efficiency)
        /\ BatteryNew(b.capacity, b.max_power, b.round_trip_efficiency) = "Ok" }

\* The Battery with the largest capacity and max_power: a state it creates
\* may lie outside the limits of a smaller Battery.
LargestBattery ==
    CHOOSE m \in Batteries :
        \A b \in Batteries :
            /\ b.capacity <= m.capacity
            /\ b.max_power <= m.max_power
            /\ b.round_trip_efficiency <= m.round_trip_efficiency

\* States of charge and powers offered to init_state.
InitialCharges == {0, 7, 2 * Scale, 4 * Scale}

InitialPowers == {-Scale, 3 * Scale}

\* Durations of a call (MIN_VALUE, 1 h, 3 h).
Durations == { d \in {MIN_VALUE, Scale, 3 * Scale} : DurationFromHourOk(d) }

\* Powers requested of charge, discharge and step.
Powers == { p \in {-5 * Scale, -3, 0, 3, 5 * Scale} : PowerFromKwOk(p) }

\* Telemetry points (duration, solar, load): a surplus, a balance, a deficit
\* (those of test_simulate_load_following_multiple_steps, scaled), a large
\* deficit over half an hour and a large surplus over the shortest duration.
TelemetryPoint(duration, solar_power, load_power) ==
    [duration |-> duration, solar_power |-> solar_power, load_power |-> load_power]

TelemetryPoints ==
    { tp \in { TelemetryPoint(Scale, Scale, 3),
               TelemetryPoint(Scale, Scale \div 2, Scale \div 2),
               TelemetryPoint(Scale, 2, 9),
               TelemetryPoint(Scale \div 2, 0, 4 * Scale),
               TelemetryPoint(MIN_VALUE, 3 * Scale, 0) } :
        /\ DurationFromHourOk(tp.duration)
        /\ PowerFromKwOk(tp.solar_power) /\ PowerFromKwOk(tp.load_power) }

--------------------------------------------------------------------------
(* The program as a state machine.  A caller owns a Battery and one       *)
(* BatteryState.  Under Spec it calls the Battery's operations on the     *)
(* state it holds (phase "api"); under SimSpec it moves both into         *)
(* simulate_load_following (phase "sim"), whose fold runs one closure     *)
(* call per step.  A panic ends the run.                                  *)

VARIABLES
    battery,     \* the Battery the caller operates
    maker,       \* the Battery whose init_state created the first state
    state,       \* the BatteryState the caller holds
    last,        \* the last call: operation, arguments, input state, result
    nops,        \* number of direct calls made
    phase,       \* "api" | "sim" | "done" | "panicked" | "csv" | "csv_done"
    telemetry,   \* simulate_load_following: telemetry_points; the Vec
                 \* read_telemetry_csv fills
    states,      \* simulate_load_following: the fold's accumulator
    idx,         \* telemetry points (data rows) consumed so far
    calls,       \* indices i for which the closure called load_follow_step
    simResult    \* what simulate_load_following returned

vars == <<battery, maker, state, last, nops, phase, telemetry, states, idx, calls,
          simResult>>

NoCall == [op |-> "none"]

NoResult == [tag |-> "None"]

Init ==
    /\ battery \in Batteries
    /\ maker \in {battery, LargestBattery}
    /\ \E soc \in InitialCharges, p \in InitialPowers :
          /\ EnergyFromKwhOk(soc) /\ PowerFromKwOk(p)
          /\ InitState(maker, soc, p).tag = "Ok"
          /\ state = InitState(maker, soc, p).state
    /\ last = NoCall
    /\ nops = 0
    /\ phase = "api"
    /\ telemetry = <<>>
    /\ states = <<>>
    /\ idx = 0
    /\ calls = <<>>
    /\ simResult = NoResult

\* The caller's bookkeeping after a direct call returned r.
Returned(op, power, duration, r) ==
    /\ last' = [op |-> op, power |-> power, duration |-> duration,
                input |-> state, result |-> r]
    /\ nops' = nops + 1
    /\ state' = IF r.tag = "Ok" THEN r.state ELSE state
    /\ phase' = IF r.tag = "Panic" THEN "panicked" ELSE phase
    /\ UNCHANGED <<battery, maker, telemetry, states, idx, calls, simResult>>

\* battery.charge(&state, power, duration)
DoCharge ==
    /\ phase = "api" /\ nops < MaxOps
    /\ \E power \in Powers, duration \in Durations :
          Returned("charge", power, duration, Charge(battery, state, power, duration))

\* battery.discharge(&state, power, duration)
DoDischarge ==
    /\ phase = "api" /\ nops < MaxOps
    /\ \E power \in Powers, duration \in Durations :
          Returned("discharge", power, duration,
                   Discharge(battery, state, power, duration))

\* battery.step(&state, power, duration)
DoStep ==
    /\ phase = "api" /\ nops < MaxOps
    /\ \E power \in Powers, duration \in Durations :
          Returned("step", power, duration, Step(battery, state, power, duration))

\* battery.load_follow_step(&state, &telemetry_point)
DoLoadFollowStep ==
    /\ phase = "api" /\ nops < MaxOps
    /\ \E tp \in TelemetryPoints :
          Returned("load_follow_step", ExcessPv(tp), tp.duration,
                   LoadFollowStep(battery, state, tp))

\* simulate_load_following(telemetry_points, battery, initial_state): entry,
\* the accumulator is vec![initial_state].
SimulateStart ==
    /\ phase = "api"
    /\ \E n \in 0..MaxTelemetry : \E tel \in [1..n -> TelemetryPoints] :
          telemetry' = tel
    /\ states' = <<state>>
    /\ idx' = 0
    /\ calls' = <<>>
    /\ phase' = "sim"
    /\ UNCHANGED <<battery, maker, state, last, nops, simResult>>

\* The closure reporting the failing step one-based.
SimulateFold_OneBasedIndex ==
    /\ phase = "sim" /\ idx < Len(telemetry)
    /\ LET i == idx
           r == LoadFollowStep(battery, states[i + 1], telemetry[i + 1])
       IN /\ calls' = Append(calls, i)
          /\ IF r.tag = "Ok"
             THEN /\ states' = Append(states, r.state)
                  /\ idx' = idx + 1
                  /\ UNCHANGED <<phase, simResult>>
             ELSE IF r.tag = "Err"
             THEN /\ simResult' = [tag |-> "Err", err |-> r.err, step |-> i + 1]
                  /\ phase' = "done"
                  /\ UNCHANGED <<states, idx>>
             ELSE /\ phase' = "panicked"
                  /\ UNCHANGED <<states, idx, simResult>>
    /\ UNCHANGED <<battery, maker, state, last, nops, telemetry>>

\* The closure stepping from the initial state every time (&states[0]).
SimulateFold_FromInitial ==
    /\ phase = "sim" /\ idx < Len(telemetry)
    /\ LET i == idx
           r == LoadFollowStep(battery, states[1], telemetry[i + 1])
       IN /\ calls' = Append(calls, i)
          /\ IF r.tag = "Ok"
             THEN /\ states' = Append(states, r.state)
                  /\ idx' = idx + 1
                  /\ UNCHANGED <<phase, simResult>>
             ELSE IF r.tag = "Err"
             THEN /\ simResult' = [tag |-> "Err", err |-> r.err, step |-> i]
                  /\ phase' = "done"
                  /\ UNCHANGED <<states, idx>>
             ELSE /\ phase' = "panicked"
                  /\ UNCHANGED <<states, idx, simResult>>
    /\ UNCHANGED <<battery, maker, state, last, nops, telemetry>>

\* The closure overwriting the newest state instead of pushing a new one.
SimulateFold_InPlace ==
    /\ phase = "sim" /\ idx < Len(telemetry)
    /\ LET i == idx
           r == LoadFollowStep(battery, states[Len(states)], telemetry[i + 1])
       IN /\ calls' = Append(calls, i)
          /\ IF r.tag = "Ok"
             THEN /\ states' = [states EXCEPT ![Len(states)] = r.state]
                  /\ idx' = idx + 1
                  /\ UNCHANGED <<phase, simResult>>
             ELSE IF r.tag = "Err"
             THEN /\ simResult' = [tag |-> "Err", err |-> r.err, step |-> i]
                  /\ phase' = "done"
                  /\ UNCHANGED <<states, idx>>
             ELSE /\ phase' = "panicked"
                  /\ UNCHANGED <<states, idx, simResult>>
    /\ UNCHANGED <<battery, maker, state, last, nops, telemetry>>

\* One call of the try_fold closure, for (i, point) = (idx, telemetry[idx]).
\* Sequences are 1-based: states[i] of the source is states[idx + 1].
SimulateFold ==
    /\ phase = "sim" /\ idx < Len(telemetry)
    /\ LET i == idx
           r == LoadFollowStep(battery, states[i + 1], telemetry[i + 1])
       IN /\ calls' = Append(calls, i)
          /\ IF r.tag = "Ok"
             THEN /\ states' = Append(states, r.state)
                  /\ idx' = idx + 1
                  /\ UNCHANGED <<phase, simResult>>
             ELSE IF r.tag = "Err"
             THEN /\ simResult' = [tag |-> "Err", err |-> r.err, step |-> i]
                  /\ phase' = "done"
                  /\ UNCHANGED <<states, idx>>
             ELSE /\ phase' = "panicked"
                  /\ UNCHANGED <<states, idx, simResult>>
    /\ UNCHANGED <<battery, maker, state, last, nops, telemetry>>

\* The return dropping the initial state from the trajectory.
SimulateReturn_DropsInitial ==
    /\ phase = "sim" /\ idx = Len(telemetry)
    /\ simResult' = [tag |-> "Ok", states |-> Tail(states)]
    /\ phase' = "done"
    /\ UNCHANGED <<battery, maker, state, last, nops, telemetry, states, idx, calls>>

\* The fold is exhausted: Ok(states).
SimulateReturn ==
    /\ phase = "sim" /\ idx = Len(telemetry)
    /\ simResult' = [tag |-> "Ok", states |-> states]
    /\ phase' = "done"
    /\ UNCHANGED <<battery, maker, state, last, nops, telemetry, states, idx, calls>>

\* The Battery's operations, called directly.
Next ==
    \/ DoCharge
    \/ DoDischarge
    \/ DoStep
    \/ DoLoadFollowStep

Spec == Init /\ [][Next]_vars

\* simulate_load_following as a function of its arguments: the try_fold over
\* the points still to come, acc being the accumulator; the closure's index i
\* is Len(acc) - 1.
RECURSIVE FoldStates(_, _, _)
FoldStates(b, acc, points) ==
    IF points = <<>> THEN [tag |-> "Ok", states |-> acc]
    ELSE LET i == Len(acc) - 1
             r == LoadFollowStep(b, acc[i + 1], Head(points))
         IN IF r.tag = "Ok" THEN FoldStates(b, Append(acc, r.state), Tail(points))
            ELSE IF r.tag = "Err" THEN [tag |-> "Err", err |-> r.err, step |-> i]
            ELSE Panicked

\* simulate_load_following(telemetry_points, battery, initial_state)
SimulateLoadFollowing(telemetry_points, b, initial_state) ==
    FoldStates(b, <<initial_state>>, telemetry_points)

\* A run of simulate_load_following on the first state.
SimNext ==
    \/ SimulateStart
    \/ SimulateFold
    \/ SimulateReturn

SimSpec == Init /\ [][SimNext]_vars

--------------------------------------------------------------------------
(* The quantity types and the Battery's constructors, called directly *)

\* Raw f64 arguments on the grid: beyond, at and inside the bounds on both
\* sides of zero.
RawValues ==
    {-MAX_VALUE - 1, -MAX_VALUE, -Scale, -MIN_VALUE, 0, MIN_VALUE, MIN_VALUE + 1,
     Scale, Scale + 1, MAX_VALUE, MAX_VALUE + 1}

\* Raw fractions: every grid value from below zero to above 1.0.
RawFractions == -1 .. Scale + 1

\* Result<quantity, f64> of a raw constructor: the error is the raw value.
Accepted(x) == [tag |-> "Ok", v |-> x]

Rejected(x) == [tag |-> "Err", err |-> x]

\* Energy::from_kwh
EnergyFromKwh(energy_kwh) ==
    IF EnergyFromKwhOk(energy_kwh) THEN Accepted(energy_kwh)
    ELSE Rejected(energy_kwh)

\* Power::from_kw
PowerFromKw(power_kw) ==
    IF PowerFromKwOk(power_kw) THEN Accepted(power_kw) ELSE Rejected(power_kw)

\* Duration::from_hour
DurationFromHour(duration_hour) ==
    IF DurationFromHourOk(duration_hour) THEN Accepted(duration_hour)
    ELSE Rejected(duration_hour)

\* Efficiency::from_fraction
EfficiencyFromFraction(fraction) ==
    IF EfficiencyFromFractionOk(fraction) THEN Accepted(fraction)
    ELSE Rejected(fraction)

\* impl Add for Energy
EnergyAdd(a, b) == a + b

\* impl Sub for Energy
EnergySub(a, b) == a - b

\* impl Sub for Power
PowerSub(a, b) == a - b

\* impl Neg for Power
PowerNeg(a) == -a

\* Energy, Power and Efficiency values the raw constructors return: operands
\* of the operators and arguments of Battery::new.
Energies ==
    { x \in {-MAX_VALUE - 1, -MAX_VALUE, -Scale, 0, Scale, MAX_VALUE, MAX_VALUE + 1} :
        EnergyFromKwh(x).tag = "Ok" }

AllPowers ==
    { x \in {-MAX_VALUE - 1, -MAX_VALUE, -Scale, 0, Scale, MAX_VALUE, MAX_VALUE + 1} :
        PowerFromKw(x).tag = "Ok" }

\* Arguments of init_state around the limits of Battery b.
StateOfChargeArgs(b) ==
    { x \in {-MAX_VALUE - 1, -MIN_VALUE, 0, MIN_VALUE, b.capacity - MIN_VALUE,
             b.capacity, b.capacity + MIN_VALUE, MAX_VALUE} :
        EnergyFromKwh(x).tag = "Ok" }

PowerArgs(b) ==
    { x \in {-MAX_VALUE - 1, -b.max_power - MIN_VALUE, -b.max_power, 0,
             b.max_power, b.max_power + MIN_VALUE, MAX_VALUE} :
        PowerFromKw(x).tag = "Ok" }

AllEfficiencies == { f \in RawFractions : EfficiencyFromFraction(f).tag = "Ok" }

\* The caller's bookkeeping after a constructor or operator returned r.  Each
\* call below is guarded by the caller's phase, so that its arguments and its
\* result are computed when the call is made.
Probed(op, args, r) ==
    /\ phase = "api"
    /\ last' = [op |-> op, args |-> args, result |-> r]
    /\ UNCHANGED <<battery, maker, state, nops, phase, telemetry, states, idx,
                   calls, simResult>>

DoEnergyFromKwh ==
    /\ phase = "api"
    /\ \E x \in RawValues : Probed("Energy::from_kwh", <<x>>, EnergyFromKwh(x))

DoPowerFromKw ==
    /\ phase = "api"
    /\ \E x \in RawValues : Probed("Power::from_kw", <<x>>, PowerFromKw(x))

DoDurationFromHour ==
    /\ phase = "api"
    /\ \E x \in RawValues : Probed("Duration::from_hour", <<x>>, DurationFromHour(x))

DoEfficiencyFromFraction ==
    /\ phase = "api"
    /\ \E x \in RawFractions :
           Probed("Efficiency::from_fraction", <<x>>, EfficiencyFromFraction(x))

\* Battery::new(capacity, max_power, round_trip_efficiency); an Ok result
\* carries the Battery.
DoBatteryNew ==
    /\ phase = "api"
    /\ \E capacity \in Energies, max_power \in AllPowers,
          round_trip_efficiency \in AllEfficiencies :
           LET e == BatteryNew(capacity, max_power, round_trip_efficiency)
           IN Probed("Battery::new", <<capacity, max_power, round_trip_efficiency>>,
                     IF e = "Ok"
                     THEN [tag |-> "Ok",
                           battery |-> [capacity |-> capacity,
                                        max_power |-> max_power,
                                        round_trip_efficiency |-> round_trip_efficiency]]
                     ELSE [tag |-> "Err", err |-> e])

\* battery.init_state(state_of_charge, power)
DoInitState ==
    /\ phase = "api"
    /\ \E state_of_charge \in StateOfChargeArgs(battery), power \in PowerArgs(battery) :
           Probed("init_state", <<state_of_charge, power>>,
                  InitState(battery, state_of_charge, power))

\* efficiency() of the Battery the last Battery::new returned.
DoEfficiency ==
    /\ last.op = "Battery::new" /\ last.result.tag = "Ok"
    /\ Probed("efficiency", <<last.result.battery>>,
              Efficiency(last.result.battery))

DoEnergyAdd ==
    /\ phase = "api"
    /\ \E a, b \in Energies : Probed("Energy+Energy", <<a, b>>, EnergyAdd(a, b))

DoEnergySub ==
    /\ phase = "api"
    /\ \E a, b \in Energies : Probed("Energy-Energy", <<a, b>>, EnergySub(a, b))

DoPowerSub ==
    /\ phase = "api"
    /\ \E a, b \in AllPowers : Probed("Power-Power", <<a, b>>, PowerSub(a, b))

DoPowerNeg ==
    /\ phase = "api"
    /\ \E a \in AllPowers : Probed("-Power", <<a>>, PowerNeg(a))

\* point.excess_pv()
DoExcessPv ==
    /\ phase = "api"
    /\ \E solar_power, load_power \in AllPowers :
           LET tp == TelemetryPoint(Scale, solar_power, load_power)
           IN Probed("excess_pv", <<tp>>, ExcessPv(tp))

TypesNext ==
    \/ DoEnergyFromKwh
    \/ DoPowerFromKw
    \/ DoDurationFromHour
    \/ DoEfficiencyFromFraction
    \/ DoBatteryNew
    \/ DoInitState
    \/ DoEfficiency
    \/ DoEnergyAdd
    \/ DoEnergySub
    \/ DoPowerSub
    \/ DoPowerNeg
    \/ DoExcessPv

\* A Battery and a first state of its own, before any call.
TypesInit ==
    /\ Init
    /\ maker = battery
    /\ state = BatteryStateNew(0, -Scale)

TypesSpec == TypesInit /\ [][TypesNext]_vars

--------------------------------------------------------------------------
(* A charge followed by a discharge of the round-trip share, as in
   test_round_trip_efficiency *)

\* Powers charged in: half of, and the whole of, the smallest max_power.
RoundTripPowers == {Scale \div 2, Scale}

\* battery.charge(&state, power, duration) with a power within max_power.
DoChargeIn ==
    /\ phase = "api" /\ last.op = "none"
    /\ \E power \in RoundTripPowers, duration \in Durations :
          Returned("charge", power, duration, Charge(battery, state, power, duration))

\* battery.discharge(&after_charge, power * round_trip_efficiency, duration)
\* after a charge of power for the same duration; the record keeps the state
\* before the charge and the state between the two calls.
DoDischargeBack ==
    /\ phase = "api" /\ last.op = "charge" /\ last.result.tag = "Ok"
    /\ LET out == MulF(last.power, battery.round_trip_efficiency)
           r == Discharge(battery, state, out, last.duration)
       IN /\ last' = [op |-> "round_trip", power |-> last.power, out |-> out,
                      duration |-> last.duration, input |-> last.input,
                      after_charge |-> state, result |-> r]
          /\ nops' = nops + 1
          /\ state' = IF r.tag = "Ok" THEN r.state ELSE state
          /\ phase' = IF r.tag = "Panic" THEN "panicked" ELSE phase
    /\ UNCHANGED <<battery, maker, telemetry, states, idx, calls, simResult>>

RoundTripNext ==
    \/ DoChargeIn
    \/ DoDischargeBack

RoundTripSpec == Init /\ [][RoundTripNext]_vars

--------------------------------------------------------------------------
(* read_telemetry_csv, over data rows that deserialize into CsvRow *)

\* CsvRow
CsvRow(duration_hour, solar_power_kw, load_power_kw) ==
    [duration_hour |-> duration_hour, solar_power_kw |-> solar_power_kw,
     load_power_kw |-> load_power_kw]

\* Data rows: valid ones (one with the smallest duration, one with a large
\* negative power) and rows with one or two fields out of range.
CsvRows ==
    {CsvRow(Scale, Scale, 3), CsvRow(Scale \div 2, 0, 4 * Scale),
     CsvRow(MIN_VALUE, -MAX_VALUE - 1, 0),
     CsvRow(0, Scale, Scale),
     CsvRow(Scale, Scale, MAX_VALUE + 1),
     CsvRow(Scale, MAX_VALUE + 1, Scale),
     CsvRow(Scale, MAX_VALUE + 1, MAX_VALUE + 2),
     CsvRow(MAX_VALUE + 1, MAX_VALUE + 2, 0)}

\* CsvParseError::InvalidDuration / InvalidSolarPower / InvalidLoadPower
CsvParseError(kind, row, value) ==
    [tag |-> "Err", err |-> [kind |-> kind, row |-> row, value |-> value]]

\* The body of the loop numbering the rows from 1, the header not counted.
ParseRow_HeaderNotCounted(i, row) ==
    LET row_num == i + 1
        duration == DurationFromHour(row.duration_hour)
        load_power == PowerFromKw(row.load_power_kw)
        solar_power == PowerFromKw(row.solar_power_kw)
    IN IF duration.tag = "Err"
         THEN [tag |-> "Err", err |-> [kind |-> "InvalidDuration", row |-> row_num,
                                       value |-> duration.err]]
       ELSE IF load_power.tag = "Err"
         THEN [tag |-> "Err", err |-> [kind |-> "InvalidLoadPower", row |-> row_num,
                                       value |-> load_power.err]]
       ELSE IF solar_power.tag = "Err"
         THEN [tag |-> "Err", err |-> [kind |-> "InvalidSolarPower", row |-> row_num,
                                       value |-> solar_power.err]]
       ELSE [tag |-> "Ok",
             point |-> TelemetryPoint(duration.v, solar_power.v, load_power.v)]

\* The body of the loop for the row at index i: the TelemetryPoint to push,
\* or the error the `?` returns.
ParseRow(i, row) ==
    LET row_num == i + 2
        duration == DurationFromHour(row.duration_hour)
        load_power == PowerFromKw(row.load_power_kw)
        solar_power == PowerFromKw(row.solar_power_kw)
    IN IF duration.tag = "Err"
         THEN CsvParseError("InvalidDuration", row_num, duration.err)
       ELSE IF load_power.tag = "Err"
         THEN CsvParseError("InvalidLoadPower", row_num, load_power.err)
       ELSE IF solar_power.tag = "Err"
         THEN CsvParseError("InvalidSolarPower", row_num, solar_power.err)
       ELSE [tag |-> "Ok",
             point |-> TelemetryPoint(duration.v, solar_power.v, load_power.v)]

\* read_telemetry_csv(path): the reader is opened on a file of the given data
\* rows and the Vec telemetry is empty.
CsvOpen ==
    /\ phase = "api" /\ last = NoCall
    /\ \E n \in 0..MaxTelemetry : \E rows \in [1..n -> CsvRows] :
          last' = [op |-> "read_telemetry_csv", rows |-> rows, result |-> NoResult]
    /\ telemetry' = <<>>
    /\ idx' = 0
    /\ phase' = "csv"
    /\ UNCHANGED <<battery, maker, state, nops, states, calls, simResult>>

\* One iteration of the loop, for (idx, row).
CsvNextRow ==
    /\ phase = "csv" /\ idx < Len(last.rows)
    /\ LET r == ParseRow(idx, last.rows[idx + 1])
       IN IF r.tag = "Ok"
          THEN /\ telemetry' = Append(telemetry, r.point)
               /\ idx' = idx + 1
               /\ UNCHANGED <<last, phase>>
          ELSE /\ last' = [last EXCEPT !.result = r]
               /\ phase' = "csv_done"
               /\ UNCHANGED <<telemetry, idx>>
    /\ UNCHANGED <<battery, maker, state, nops, states, calls, simResult>>

\* The loop is exhausted: Ok(telemetry).
CsvReturn ==
    /\ phase = "csv" /\ idx = Len(last.rows)
    /\ last' = [last EXCEPT !.result = [tag |-> "Ok", telemetry |-> telemetry]]
    /\ phase' = "csv_done"
    /\ UNCHANGED <<battery, maker, state, nops, telemetry, states, idx, calls,
                   simResult>>

CsvNext ==
    \/ CsvOpen
    \/ CsvNextRow
    \/ CsvReturn

CsvSpec == TypesInit /\ [][CsvNext]_vars

--------------------------------------------------------------------------
(* Properties *)

\* The BatteryState invariant relative to Battery b.
ValidState(b, s) ==
    /\ 0 <= s.state_of_charge
    /\ s.state_of_charge <= b.capacity
    /\ AbsF(s.power) <= b.max_power

Called == last.op # "none"

ReturnedOk == Called /\ last.result.tag = "Ok"

\* C1: invariant preservation.  When the first state came from this
\* Battery's own init_state, the state the caller holds after any sequence of
\* charge, discharge, step and load_follow_step calls, and every state such a
\* call returned, has 0 <= state_of_charge <= capacity and
\* |power| <= max_power.
C1_InvariantPreservation ==
    maker = battery =>
        /\ ValidState(battery, state)
        /\ ReturnedOk => ValidState(battery, last.result.state)

\* A second call in a row returned Ok and moved the state of charge.
C1_Witness ==
    /\ maker = battery
    /\ nops >= 2
    /\ ReturnedOk
    /\ last.result.state.state_of_charge # last.input.state_of_charge
    /\ last.input.state_of_charge > 0

\* C2: every state an operation returns satisfies the invariant of the
\* Battery that performed it, whichever Battery created the input state.
C2_ResultValidated ==
    ReturnedOk => ValidState(battery, last.result.state)

\* C3: a zero-power step on a valid state succeeds, keeps state_of_charge and
\* returns power exactly zero, whatever the input's power.
C3_ZeroPowerStep ==
    (Called /\ last.op = "step" /\ last.power = 0
        /\ ValidState(battery, last.input)) =>
        /\ last.result.tag = "Ok"
        /\ last.result.state.state_of_charge = last.input.state_of_charge
        /\ last.result.state.power = 0

\* A zero-power step was taken on a valid, charged state with non-zero power.
C3_Witness ==
    /\ Called /\ last.op = "step" /\ last.power = 0
    /\ ValidState(battery, last.input)
    /\ last.input.power # 0
    /\ last.input.state_of_charge > 0
    /\ last.result.tag = "Ok"

\* A charge or discharge of a valid state that asked for more than max_power
\* and returned a state.
OverMaxRequest(op) ==
    /\ ReturnedOk /\ last.op = op
    /\ last.power > battery.max_power
    /\ ValidState(battery, last.input)

\* C4 as claimed: a charge (discharge) that asks for more than max_power
\* returns power == max_power (of magnitude max_power).
C4_ClampsToMaxPower ==
    /\ OverMaxRequest("charge") => last.result.state.power = battery.max_power
    /\ OverMaxRequest("discharge") =>
           AbsF(last.result.state.power) = battery.max_power

\* C4 as amended: such a charge (discharge) returns the achievable power,
\* min(max_power, power_to_fill) (min(max_power, power_to_empty)): at most
\* max_power, equal to it only when the energy limit is not the smaller one,
\* and never the requested value.
C4_ClampsToAchievablePower ==
    /\ OverMaxRequest("charge") =>
         /\ last.result.state.power =
                MaxAchievableChargePower(battery, last.input, last.duration).v
         /\ last.result.state.power <= battery.max_power
         /\ last.result.state.power # last.power
    /\ OverMaxRequest("discharge") =>
         /\ last.result.state.power =
                MaxAchievableDischargePower(battery, last.input, last.duration).v
         /\ last.result.state.power <= battery.max_power
         /\ last.result.state.power # last.power

\* An over-max charge returned a positive power below max_power.
C4_Witness ==
    /\ OverMaxRequest("charge")
    /\ 0 < last.result.state.power
    /\ last.result.state.power < battery.max_power

\* C5: a step with a negative command returns power <= 0, one with a positive
\* command returns power >= 0 (input state valid for the Battery).
C5_SignConvention ==
    (ReturnedOk /\ last.op = "step" /\ ValidState(battery, last.input)) =>
        /\ last.power < 0 => last.result.state.power <= 0
        /\ last.power > 0 => last.result.state.power >= 0

\* Exact (unrounded) comparison on the grid: state_of_charge +
\* min(requested, max_power) * duration * efficiency() exceeds capacity.
WouldExceedCapacity(b, s, power, duration) ==
    s.state_of_charge * Scale * Scale
        + MinF(power, b.max_power) * duration * Efficiency(b)
      > b.capacity * Scale * Scale

\* Exact comparison: state_of_charge - min(requested, max_power) * duration /
\* efficiency() is below zero.
WouldGoBelowZero(b, s, power, duration) ==
    s.state_of_charge * Efficiency(b) * Scale
      < MinF(power, b.max_power) * duration * Scale

\* C6: a charge that would exceed capacity returns state_of_charge exactly
\* equal to capacity.
C6_ClampsToCapacity ==
    (ReturnedOk /\ last.op = "charge" /\ ValidState(battery, last.input)
        /\ WouldExceedCapacity(battery, last.input, last.power, last.duration)) =>
        last.result.state.state_of_charge = battery.capacity

\* C7: a discharge that would go below zero returns state_of_charge exactly 0,
\* and no discharge returns a negative state_of_charge.
C7_ClampsToEmpty ==
    (ReturnedOk /\ last.op = "discharge" /\ ValidState(battery, last.input)) =>
        /\ last.result.state.state_of_charge >= 0
        /\ WouldGoBelowZero(battery, last.input, last.power, last.duration) =>
               last.result.state.state_of_charge = 0

\* The closure's calls so far: indices 0, 1, ..., n - 1, each once, in order.
InOrder(n) == calls = [k \in 1..n |-> k - 1]

\* seq[k + 1] is load_follow_step of seq[k] and the k-th telemetry point, for
\* every k up to n.
Chained(seq, n) ==
    \A k \in 1..n :
        LET r == LoadFollowStep(battery, seq[k], telemetry[k])
        IN r.tag = "Ok" /\ seq[k + 1] = r.state

SimOk == phase = "done" /\ simResult.tag = "Ok"

SimErr == phase = "done" /\ simResult.tag = "Err"

\* C8: when every step succeeds, simulate_load_following returns exactly
\* len(telemetry) + 1 states and element 0 is the given initial state.
C8_TrajectoryLength ==
    SimOk =>
        /\ Len(simResult.states) = Len(telemetry) + 1
        /\ simResult.states[1] = state

\* A simulation over at least three telemetry points returned Ok.
C8_Witness == SimOk /\ Len(telemetry) >= 3

\* C9: when a load_follow_step fails, the simulation returns only an error
\* holding that step's BatteryError and its zero-based index i; every step
\* before i succeeded, on the chain that starts at the initial state; the
\* closure ran for 0..i and never again; no trajectory is returned.
C9_FailFast ==
    SimErr =>
        LET i == simResult.step
            r == LoadFollowStep(battery, states[i + 1], telemetry[i + 1])
        IN /\ i \in 0..(Len(telemetry) - 1)
           /\ DOMAIN simResult = {"tag", "err", "step"}
           /\ Len(states) = i + 1
           /\ states[1] = state
           /\ Chained(states, i)
           /\ r.tag = "Err" /\ r.err = simResult.err
           /\ InOrder(i + 1)
           /\ ~ENABLED SimulateFold

\* A simulation failed at a step after the first.
C9_Witness == SimErr /\ simResult.step >= 1 /\ simResult.step + 1 < Len(telemetry)

\* C10: in a successful simulation states[i + 1] is load_follow_step of
\* states[i] and telemetry[i] for every i, and the telemetry points were
\* consumed in input order, each exactly once.
C10_SequentialChaining ==
    SimOk =>
        /\ Len(simResult.states) = Len(telemetry) + 1
        /\ Chained(simResult.states, Len(telemetry))
        /\ InOrder(Len(telemetry))

\* A successful simulation of three points whose states of charge all differ.
C10_Witness ==
    /\ SimOk /\ Len(telemetry) >= 3
    /\ \A j, k \in 1..Len(simResult.states) :
          j # k => simResult.states[j].state_of_charge
                     # simResult.states[k].state_of_charge

\* C11: no unchecked failure.  For a state created by this Battery and any
\* accepted Duration, charge, discharge, step and load_follow_step (and the
\* max_achievable_*_power they call) return a value; none of them panics on
\* an intermediate Power or Energy that fails validation.
C11_NoPanic ==
    (Called /\ maker = battery) => last.result.tag # "Panic"

\* The newest state the caller holds: the first state, or the last state of
\* the trajectory a simulation built from it.
NewestState == IF Len(states) = 0 THEN state ELSE states[Len(states)]

\* C12: from a state created by this Battery (by init_state, or at the end of
\* a simulation's trajectory), charge and discharge with a non-negative
\* requested power and a valid duration never return Err, hence neither does
\* step with any power, nor simulate_load_following.
C12_NeverErr ==
    maker = battery =>
        /\ phase \in {"api", "done"} =>
              \A d \in Durations, p \in Powers :
                 /\ p >= 0 => /\ Charge(battery, NewestState, p, d).tag # "Err"
                              /\ Discharge(battery, NewestState, p, d).tag # "Err"
                 /\ Step(battery, NewestState, p, d).tag # "Err"
        /\ ~SimErr

\* A simulation from this Battery's own state that ran three steps, reached
\* a full battery and later a state below full.
C12_Witness ==
    /\ SimOk /\ maker = battery /\ Len(telemetry) >= 3
    /\ \E j, k \in 1..Len(simResult.states) :
          /\ j < k
          /\ simResult.states[j].state_of_charge = battery.capacity
          /\ simResult.states[k].state_of_charge < battery.capacity

\* C13: Battery::new succeeds iff capacity > 0 and max_power > 0; it fails
\* with NonPositiveCapacity when capacity <= 0, and with NonPositiveMaxPower
\* when capacity > 0 and max_power <= 0.
C13_BatteryNew ==
    last.op = "Battery::new" =>
        LET capacity == last.args[1]
            max_power == last.args[2]
        IN /\ last.result.tag = "Ok" <=> (capacity > 0 /\ max_power > 0)
           /\ last.result.tag = "Ok" =>
                 /\ last.result.battery.capacity = capacity
                 /\ last.result.battery.max_power = max_power
                 /\ last.result.battery.round_trip_efficiency = last.args[3]
           /\ capacity <= 0 => last.result = [tag |-> "Err", err |-> "NonPositiveCapacity"]
           /\ (capacity > 0 /\ max_power <= 0) =>
                 last.result = [tag |-> "Err", err |-> "NonPositiveMaxPower"]

\* Battery::new with a zero capacity and a non-positive max_power: the
\* capacity is reported.
C13_Witness ==
    /\ last.op = "Battery::new"
    /\ last.args[1] = 0 /\ last.args[2] <= 0
    /\ last.result = [tag |-> "Err", err |-> "NonPositiveCapacity"]

\* C14: init_state succeeds iff 0 <= state_of_charge <= capacity and
\* |power| <= max_power, the boundaries included; otherwise it fails with
\* NegativeStateOfCharge, StateOfChargeGreaterThanCapacity or
\* PowerGreaterThanMax respectively, for power of either sign.
C14_InitState ==
    last.op = "init_state" =>
        LET state_of_charge == last.args[1]
            power == last.args[2]
            inRange == 0 <= state_of_charge /\ state_of_charge <= battery.capacity
        IN /\ last.result.tag = "Ok" <=>
                 (inRange /\ AbsF(power) <= battery.max_power)
           /\ last.result.tag = "Ok" =>
                 last.result.state = [state_of_charge |-> state_of_charge,
                                      power |-> power]
           /\ state_of_charge < 0 =>
                 last.result = Err(<<"NegativeStateOfCharge">>)
           /\ state_of_charge > battery.capacity =>
                 last.result = Err(<<"StateOfChargeGreaterThanCapacity">>)
           /\ (inRange /\ AbsF(power) > battery.max_power) =>
                 last.result = Err(<<"PowerGreaterThanMax">>)

\* init_state of a full battery with a negative power beyond -max_power.
C14_Witness ==
    /\ last.op = "init_state"
    /\ last.args[1] = battery.capacity
    /\ last.args[2] < -battery.max_power
    /\ last.result = Err(<<"PowerGreaterThanMax">>)

\* C15: Energy::from_kwh and Power::from_kw reject every value whose
\* magnitude exceeds MAX_VALUE, positive or negative, and accept every finite
\* value within the bound.
C15_MagnitudeBound ==
    last.op \in {"Energy::from_kwh", "Power::from_kw"} =>
        (last.result.tag = "Ok" <=> AbsF(last.args[1]) <= MAX_VALUE)

\* C16: Duration::from_hour rejects every value at or below MIN_VALUE
\* (MIN_VALUE itself included) and every value above MAX_VALUE, accepts the
\* values in between and MAX_VALUE, and returns a rejected raw value as the
\* error.
C16_DurationRange ==
    last.op = "Duration::from_hour" =>
        LET x == last.args[1]
        IN /\ last.result.tag = "Ok" <=> (MIN_VALUE < x /\ x <= MAX_VALUE)
           /\ last.result.tag = "Err" => last.result.err = x

\* C17: Efficiency::from_fraction accepts exactly the fractions in
\* (MIN_VALUE, 1.0]: it rejects every value <= MIN_VALUE and every value
\* > 1.0, accepts 1.0, and returns a rejected raw value as the error.
C17_EfficiencyRange ==
    last.op = "Efficiency::from_fraction" =>
        LET x == last.args[1]
        IN /\ last.result.tag = "Ok" <=> (MIN_VALUE < x /\ x <= Scale)
           /\ last.result.tag = "Ok" => last.result.v = x
           /\ last.result.tag = "Err" => last.result.err = x

\* Efficiency::from_fraction rejected exactly MIN_VALUE and returned it.
C17_Witness ==
    /\ last.op = "Efficiency::from_fraction"
    /\ last.args[1] = MIN_VALUE
    /\ last.result = [tag |-> "Err", err |-> MIN_VALUE]

\* C18: every arithmetic operator validates its result: Energy + Energy,
\* Energy - Energy, Power - Power, -Power and excess_pv yield a quantity the
\* raw constructor of the result type accepts; none produces an out-of-range
\* quantity silently.
C18_OperatorsValidate ==
    /\ last.op \in {"Energy+Energy", "Energy-Energy"} =>
          EnergyFromKwh(last.result).tag = "Ok"
    /\ last.op \in {"Power-Power", "-Power", "excess_pv"} =>
          PowerFromKw(last.result).tag = "Ok"

\* C19 as stated: for every valid Battery, efficiency() squared equals
\* round_trip_efficiency exactly, and efficiency() lies in
\* [round_trip_efficiency, 1.0].
C19_SquareIsRoundTrip ==
    last.op = "efficiency" =>
        LET rte == last.args[1].round_trip_efficiency
        IN /\ MulF(last.result, last.result) = rte
           /\ rte <= last.result /\ last.result <= Scale

\* C19, amended: for every valid Battery, efficiency() squared equals
\* round_trip_efficiency to within one unit of the arithmetic's resolution
\* (the rounding of the square root and of the product), and efficiency()
\* lies in [round_trip_efficiency, 1.0] exactly.
C19_SquareNearRoundTrip ==
    last.op = "efficiency" =>
        LET rte == last.args[1].round_trip_efficiency
        IN /\ AbsF(MulF(last.result, last.result) - rte) <= 1
           /\ rte <= last.result /\ last.result <= Scale

\* efficiency() of a Battery with round_trip_efficiency below 1.0 whose
\* square is not the round-trip value.
C19_Witness ==
    /\ last.op = "efficiency"
    /\ last.args[1].round_trip_efficiency < last.result
    /\ last.result < Scale
    /\ MulF(last.result, last.result) # last.args[1].round_trip_efficiency

\* Exact comparison: state_of_charge + power * duration * efficiency() stays
\* strictly below capacity.
StaysBelowCapacity(b, s, power, duration) ==
    s.state_of_charge * Scale * Scale + power * duration * Efficiency(b)
      < b.capacity * Scale * Scale

\* Exact comparison: state_of_charge - power * duration / efficiency() stays
\* strictly above zero.
StaysAboveZero(b, s, power, duration) ==
    s.state_of_charge * Efficiency(b) * Scale > power * duration * Scale

\* C20: unclamped energy transfer.  When 0 < requested power <= max_power and
\* the step reaches neither capacity nor empty, charge returns
\* power == requested and state_of_charge == old + requested * duration *
\* efficiency(), and discharge returns state_of_charge == old - requested *
\* duration / efficiency().
C20_UnclampedTransfer ==
    (Called /\ last.op \in {"charge", "discharge"}
        /\ ValidState(battery, last.input)
        /\ 0 < last.power /\ last.power <= battery.max_power) =>
        LET s == last.input
            e == MulF(last.power, last.duration)
        IN /\ (last.op = "charge"
                 /\ StaysBelowCapacity(battery, s, last.power, last.duration)) =>
                  /\ last.result.tag = "Ok"
                  /\ last.result.state.power = last.power
                  /\ last.result.state.state_of_charge
                       = s.state_of_charge + MulF(e, Efficiency(battery))
           /\ (last.op = "discharge"
                 /\ StaysAboveZero(battery, s, last.power, last.duration)) =>
                  /\ last.result.tag = "Ok"
                  /\ last.result.state.power = last.power
                  /\ last.result.state.state_of_charge
                       = s.state_of_charge - DivF(e, Efficiency(battery))

\* C21: achievable power limits.  For a state of this Battery and a valid
\* duration, max_achievable_charge_power is min(max_power, (capacity -
\* state_of_charge) / duration / efficiency()) and
\* max_achievable_discharge_power is min(max_power, state_of_charge /
\* duration * efficiency()); both lie in [0, max_power]; and when the
\* returned power is below max_power, charging (discharging) at it for that
\* duration brings state_of_charge exactly to capacity (to 0).
C21_AchievablePower ==
    (Called /\ maker = battery /\ last.op \in {"charge", "discharge"}) =>
        LET b == battery
            s == last.input
            d == last.duration
            eff == Efficiency(b)
            mc == MaxAchievableChargePower(b, s, d)
            md == MaxAchievableDischargePower(b, s, d)
        IN /\ ~mc.panic /\ ~md.panic
           /\ mc.v = MinF(b.max_power, DivF(DivF(b.capacity - s.state_of_charge, d), eff))
           /\ md.v = MinF(b.max_power, MulF(DivF(s.state_of_charge, d), eff))
           /\ 0 <= mc.v /\ mc.v <= b.max_power
           /\ 0 <= md.v /\ md.v <= b.max_power
           /\ mc.v < b.max_power =>
                 Charge(b, s, mc.v, d) = Ok(BatteryStateNew(b.capacity, mc.v))
           /\ md.v < b.max_power =>
                 Discharge(b, s, md.v, d) = Ok(BatteryStateNew(0, md.v))

\* A charge of last.power and a discharge of last.out, both returned and
\* neither clamped: the charge stayed strictly below capacity, the discharge
\* strictly above zero, and both powers are within max_power.
UnclampedRoundTrip ==
    /\ last.op = "round_trip" /\ last.result.tag = "Ok"
    /\ ValidState(battery, last.input)
    /\ 0 < last.power /\ last.power <= battery.max_power
    /\ 0 < last.out /\ last.out <= battery.max_power
    /\ StaysBelowCapacity(battery, last.input, last.power, last.duration)
    /\ StaysAboveZero(battery, last.after_charge, last.out, last.duration)

\* The difference between the state of charge after the round trip and the
\* one before it.
RoundTripDrift ==
    last.result.state.state_of_charge - last.input.state_of_charge

RoundTripTolerance == 5 + MulF(last.power, last.duration) \div Scale

C23_StepDispatch ==
    (Called /\ last.op = "step") =>
        /\ last.power > 0 =>
              last.result = Charge(battery, last.input, last.power, last.duration)
        /\ last.power < 0 =>
              last.result = Discharge(battery, last.input, AbsF(last.power),
                                      last.duration)
        /\ last.power = 0 =>
              last.result = Ok(BatteryStateNew(last.input.state_of_charge, 0))

\* step with a negative power returned a state with less charge than before.
C23_Witness ==
    /\ ReturnedOk /\ last.op = "step" /\ last.power < 0
    /\ last.result.state.state_of_charge < last.input.state_of_charge

\* C24: load following.  load_follow_step(state, point) returns exactly
\* step(state, solar_power - load_power, point.duration): a surplus charges,
\* a deficit discharges, equal generation and load leave the state of charge
\* unchanged; LoadFollowing.decide(generation, consumption) is the same
\* signed command.  Stated for the newest call the simulation's closure made,
\* which every call of it once was.
C24_LoadFollowing ==
    /\ (phase = "sim" /\ Len(states) >= 2) =>
          LET k == Len(states) - 1
              tp == telemetry[k]
              s == states[k]
              r == Step(battery, s, tp.solar_power - tp.load_power, tp.duration)
          IN /\ r = Ok(states[k + 1])
             /\ Decide(tp.solar_power, tp.load_power) = ExcessPv(tp)
             /\ tp.solar_power > tp.load_power =>
                   r = Charge(battery, s, tp.solar_power - tp.load_power, tp.duration)
             /\ tp.solar_power < tp.load_power =>
                   r = Discharge(battery, s, tp.load_power - tp.solar_power,
                                 tp.duration)
             /\ tp.solar_power = tp.load_power =>
                   states[k + 1].state_of_charge = s.state_of_charge
    /\ SimErr =>
          LET tp == telemetry[simResult.step + 1]
              r == Step(battery, states[simResult.step + 1],
                        tp.solar_power - tp.load_power, tp.duration)
          IN r = Err(simResult.err)

\* A finished simulation with a surplus step that raised the state of
\* charge, a deficit step that lowered it and a balanced step.
C24_Witness ==
    /\ SimOk
    /\ \E i, j, k \in 1..Len(telemetry) :
          /\ telemetry[i].solar_power > telemetry[i].load_power
          /\ states[i + 1].state_of_charge > states[i].state_of_charge
          /\ telemetry[j].solar_power < telemetry[j].load_power
          /\ states[j + 1].state_of_charge < states[j].state_of_charge
          /\ telemetry[k].solar_power = telemetry[k].load_power

\* The variants of BatteryStateError.
BatteryStateErrors ==
    {"NegativeStateOfCharge", "StateOfChargeGreaterThanCapacity",
     "PowerGreaterThanMax"}

\* C25: error context.  A failure of charge is ErrorCharging wrapping a
\* BatteryStateError, a failure of discharge is ErrorDischarging wrapping
\* one; step and load_follow_step pass the error on unchanged, so a failing
\* step with a positive command reports ErrorCharging, one with a negative
\* command ErrorDischarging, and a zero command never fails.
C25_ErrorContext ==
    (Called /\ last.result.tag = "Err") =>
        /\ Len(last.result.err) = 2
        /\ last.result.err[2] \in BatteryStateErrors
        /\ last.op = "charge" => last.result.err[1] = "ErrorCharging"
        /\ last.op = "discharge" => last.result.err[1] = "ErrorDischarging"
        /\ last.op \in {"step", "load_follow_step"} =>
              /\ last.power # 0
              /\ last.power > 0 =>
                    /\ last.result.err[1] = "ErrorCharging"
                    /\ last.result = Charge(battery, last.input, last.power,
                                            last.duration)
              /\ last.power < 0 =>
                    /\ last.result.err[1] = "ErrorDischarging"
                    /\ last.result = Discharge(battery, last.input, -last.power,
                                               last.duration)

\* A step with a negative command failed inside discharge.
C25_Witness ==
    /\ Called /\ last.op = "step" /\ last.power < 0
    /\ last.result.tag = "Err"
    /\ last.result.err[1] = "ErrorDischarging"

\* The data row passes validation: its duration and both powers are accepted
\* by the raw constructors.
RowValid(row) ==
    /\ DurationFromHour(row.duration_hour).tag = "Ok"
    /\ PowerFromKw(row.solar_power_kw).tag = "Ok"
    /\ PowerFromKw(row.load_power_kw).tag = "Ok"

\* C26: telemetry parsing is all-or-nothing and positional.
\* read_telemetry_csv returns one TelemetryPoint per data row, in row order,
\* only if every row passes validation; otherwise it stops at the first
\* offending row and returns an error naming an offending field of that row,
\* its raw value, and the row number: the zero-based row index plus 2.
C26_AllOrNothing ==
    phase = "csv_done" =>
        LET rows == last.rows
            bad == { k \in 1..Len(rows) : ~RowValid(rows[k]) }
        IN IF bad = {}
           THEN /\ last.result.tag = "Ok"
                /\ last.result.telemetry =
                      [k \in 1..Len(rows) |->
                          TelemetryPoint(rows[k].duration_hour,
                                         rows[k].solar_power_kw,
                                         rows[k].load_power_kw)]
           ELSE LET f == CHOOSE k \in bad : \A j \in bad : k <= j
                    e == last.result.err
                IN /\ last.result.tag = "Err"
                   /\ e.row = (f - 1) + 2
                   /\ idx = f - 1 /\ Len(telemetry) = f - 1
                   /\ \/ /\ e.kind = "InvalidDuration"
                         /\ e.value = rows[f].duration_hour
                         /\ DurationFromHour(e.value).tag = "Err"
                      \/ /\ e.kind = "InvalidSolarPower"
                         /\ e.value = rows[f].solar_power_kw
                         /\ PowerFromKw(e.value).tag = "Err"
                      \/ /\ e.kind = "InvalidLoadPower"
                         /\ e.value = rows[f].load_power_kw
                         /\ PowerFromKw(e.value).tag = "Err"

\* A file whose third data row is the first with a field out of range, the
\* load power: the error names row 4.
C26_Witness ==
    /\ phase = "csv_done" /\ last.result.tag = "Err"
    /\ Len(last.rows) >= 3
    /\ RowValid(last.rows[1]) /\ RowValid(last.rows[2])
    /\ last.result.err.kind = "InvalidLoadPower"
    /\ last.result.err.row = 4

\* No step of a simulation touches the Battery, the borrowed initial state or
\* a state already in the trajectory: the accumulator only grows at its end.
FrameOfStep ==
    /\ battery' = battery
    /\ state' = state
    /\ Len(states') >= Len(states)
    /\ \A k \in 1..Len(states) : states'[k] = states[k]

\* The trajectory simulate_load_following returns for the first n telemetry
\* points is the first n + 1 states of the trajectory for all of them.
PrefixOfTrajectory(n) ==
    SimulateLoadFollowing(SubSeq(telemetry, 1, n), battery, state)
        = [tag |-> "Ok", states |-> SubSeq(simResult.states, 1, n + 1)]

\* C27: pure transitions.  The steps leave the input BatteryState and the
\* Battery unchanged, a state once appended to the trajectory is never altered
\* by later steps, and so the trajectory for a prefix of the telemetry is a
\* prefix of the trajectory for the whole telemetry.
C27_PureTransitions ==
    /\ [][FrameOfStep]_vars
    /\ [](SimOk => \A n \in 0..Len(telemetry) : PrefixOfTrajectory(n))

\* A finished simulation of three points in which every step changed the
\* state of charge.
C27_Witness ==
    /\ SimOk /\ Len(telemetry) >= 3
    /\ \A k \in 1..Len(telemetry) :
          simResult.states[k + 1].state_of_charge # simResult.states[k].state_of_charge

\* State s with another power: zero, or max_power when its power is zero.
WithOtherPower(s) ==
    { [s EXCEPT !.power = IF s.power = 0 THEN battery.max_power ELSE 0] }

\* Everything simulate_load_following returns but the initial state it
\* echoes at index 0.
AfterIndex0(r) == IF r.tag = "Ok" THEN [r EXCEPT !.states = Tail(r.states)] ELSE r

\* C28: the previous power does not influence a transition.  For two input
\* states with equal state_of_charge and different power, charge, discharge,
\* step and load_follow_step with the same command and duration return
\* identical results, so a simulated trajectory after index 0 depends only
\* on the initial state_of_charge, the Battery and the telemetry.  Stated for
\* the newest call of the closure and for the finished simulation.
C28_PowerIndependence ==
    /\ (phase = "sim" /\ Len(states) >= 2) =>
          LET k == Len(states) - 1
              tp == telemetry[k]
              p == ExcessPv(tp)
              r == Ok(states[k + 1])
          IN \A s \in WithOtherPower(states[k]) :
                /\ LoadFollowStep(battery, s, tp) = r
                /\ Step(battery, s, p, tp.duration) = r
                /\ p > 0 => Charge(battery, s, p, tp.duration) = r
                /\ p < 0 => Discharge(battery, s, -p, tp.duration) = r
    /\ phase = "done" =>
          \A s \in WithOtherPower(state) :
              AfterIndex0(SimulateLoadFollowing(telemetry, battery, s))
                = AfterIndex0(simResult)

\* A finished simulation from a state whose power was not zero, with a
\* charging and a discharging step that both changed the state of charge.
C28_Witness ==
    /\ SimOk /\ state.power # 0
    /\ \E j, k \in 1..Len(telemetry) :
          /\ simResult.states[j + 1].state_of_charge > simResult.states[j].state_of_charge
          /\ simResult.states[k + 1].state_of_charge < simResult.states[k].state_of_charge

\* C29: direction of energy flow.  For every state of this Battery, every
\* valid duration and every requested power, zero and negative values passed
\* directly to charge or discharge included, a successful charge never
\* returns a state_of_charge lower than the input's and never a negative
\* power, and a successful discharge never returns a state_of_charge higher
\* than the input's.
C29_FlowDirection ==
    ReturnedOk =>
        /\ last.op = "charge" =>
              /\ last.result.state.state_of_charge >= last.input.state_of_charge
              /\ last.result.state.power >= 0
        /\ last.op = "discharge" =>
              last.result.state.state_of_charge <= last.input.state_of_charge

\* The states of the trajectory computed so far, and the saturated states a
\* step can return.
Trajectory == IF phase \in {"sim", "done", "panicked"} THEN states ELSE <<>>

Full == Ok(BatteryStateNew(battery.capacity, 0))

Empty == Ok(BatteryStateNew(0, 0))

\* C30: saturation is stable.  Once state_of_charge equals capacity, every
\* further step with a positive command returns state_of_charge == capacity
\* with power exactly 0, and once state_of_charge equals 0, every further
\* step with a negative command returns state_of_charge == 0 with power
\* exactly 0; in a simulation a full battery stays full until the first step
\* with a negative command.  Stated for the newest state of the trajectory,
\* which every state of it once was, and the command the fold gives it; for
\* the first state, for every power and duration as well.
C30_SaturationStable ==
    (phase = "sim" /\ Len(Trajectory) > 0) =>
        LET k == Len(Trajectory)
            s == Trajectory[k]
        IN /\ s.state_of_charge = battery.capacity =>
                 /\ k = 1 => \A p \in Powers, d \in Durations :
                                p > 0 => Step(battery, s, p, d) = Full
                 /\ (k <= Len(telemetry) /\ ExcessPv(telemetry[k]) > 0) =>
                       LoadFollowStep(battery, s, telemetry[k]) = Full
           /\ s.state_of_charge = 0 =>
                 /\ k = 1 => \A p \in Powers, d \in Durations :
                                p < 0 => Step(battery, s, p, d) = Empty
                 /\ (k <= Len(telemetry) /\ ExcessPv(telemetry[k]) < 0) =>
                       LoadFollowStep(battery, s, telemetry[k]) = Empty
           /\ \A j \in 1..k :
                 ( /\ Trajectory[j].state_of_charge = battery.capacity
                   /\ \A i \in j..(k - 1) : ExcessPv(telemetry[i]) >= 0 )
                 => s.state_of_charge = battery.capacity

\* A finished simulation of a full battery that stayed full with power 0
\* over a surplus and a balance, and left the full state at the first deficit.
C30_Witness ==
    /\ SimOk /\ Len(states) = 4
    /\ states[1].state_of_charge = battery.capacity /\ states[1].power # 0
    /\ ExcessPv(telemetry[1]) > 0
    /\ states[2] = BatteryStateNew(battery.capacity, 0)
    /\ ExcessPv(telemetry[2]) = 0
    /\ states[3] = BatteryStateNew(battery.capacity, 0)
    /\ ExcessPv(telemetry[3]) < 0
    /\ states[4].state_of_charge < battery.capacity

==========================================================================
